---- MODULE Spec2Model ----
(***************************************************************************)
(* Model of the word-list parser (src/utils/word_parser.py) and of the     *)
(* audio composer (src/utils/audio_generator.py) of english-tutor.         *)
(*                                                                         *)
(* Python strings are sequences of one-character strings.  Durations and   *)
(* speeds are integers in tenths (1.0 is 10, 2.0 is 20, 0.5 is 5).         *)
(***************************************************************************)
EXTENDS Integers, Sequences, FiniteSets, TLC

(***************************************************************************)
(* Bounds of the model                                                     *)
(***************************************************************************)
MaxWords == 2
MaxLines == 3

(***************************************************************************)
(* Program constants                                                       *)
(***************************************************************************)
TEST_PAUSE_DURATION == 20
OneSecond == 10
SpeedMin == 5
SpeedMax == 20
PauseMin == 5
PauseMax == 50

(***************************************************************************)
(* String helpers: str.strip, str.split('(')[0], truthiness                *)
(***************************************************************************)
None == <<"None">>

WS == {" ", "\t", "\n"}

RECURSIVE lstrip(_)
lstrip(s) ==
    IF s = <<>> THEN s
    ELSE IF Head(s) \in WS THEN lstrip(Tail(s)) ELSE s

RECURSIVE rstrip(_)
rstrip(s) ==
    IF s = <<>> THEN s
    ELSE IF s[Len(s)] \in WS THEN rstrip(SubSeq(s, 1, Len(s) - 1)) ELSE s

strip(s) == rstrip(lstrip(s))

\* (value or '') : None and the empty string both give ''
OrEmpty(v) == IF v = None THEN <<>> ELSE v

\* index of the first occurrence of character c in s, 0 when absent
RECURSIVE FindChar(_, _, _)
FindChar(s, c, from) ==
    IF from > Len(s) THEN 0
    ELSE IF s[from] = c THEN from ELSE FindChar(s, c, from + 1)

\* s.split(c)[0]
SplitFirst(s, c) ==
    LET p == FindChar(s, c, 1)
    IN  IF p = 0 THEN s ELSE SubSeq(s, 1, p - 1)

\* variant: the headword is sent to synthesis as stored
CleanEnglish_keep(english) == english

\* lines 83-84: if '(' in english: english = english.split('(')[0].strip()
CleanEnglish(english) ==
    IF FindChar(english, "(", 1) # 0 THEN strip(SplitFirst(english, "(")) ELSE english

(***************************************************************************)
(* Inputs of generate_audio                                                *)
(***************************************************************************)
WordSamples ==
    { [english |-> <<"a">>,                     polish |-> <<"p">>,      example |-> <<"e">>],
      [english |-> <<"a", " ", "(", "b", ")">>, polish |-> <<" ", "p">>, example |-> None],
      [english |-> <<"(", "b", ")">>,           polish |-> <<"p">>,      example |-> <<" ">>],
      [english |-> <<"c">>,                     polish |-> <<" ">>,      example |-> <<"e">>],
      [english |-> None,                        polish |-> <<"p">>,      example |-> None] }

WordLists == UNION { [1..n -> WordSamples] : n \in 0..MaxWords }

SettingsSamples ==
    { [speed |-> sp[1], pause_between |-> sp[2], repetitions |-> r,
       include_examples |-> ie, test_mode |-> tm] :
        sp \in {<<10, 20>>, <<10, 10>>, <<30, 70>>},
        r \in {1, 2, 3},
        ie \in BOOLEAN,
        tm \in {"None", "pl_to_en", "en_to_pl"} }

VARIABLES
    words, settings,        \* arguments of generate_audio
    pc,                     \* position in generate_audio
    temp_dir,               \* "none" | "exists" | "deleted"
    file_counter,           \* self._file_counter
    file_list,              \* list of paths to concatenate
    calls,                  \* external calls made so far, calls[n] made file number n
    silence_1s_path, silence_between_path, silence_test_path,
    i,                      \* enumerate index of the record being processed
    word_files,             \* files of the record being processed
    concat_result,          \* outcome of the FFmpeg concat step
    rmtree,                 \* outcome of shutil.rmtree in _cleanup
    exception,              \* exception propagating out of generate_audio
    retval,                 \* value returned by generate_audio
    text,                   \* argument of parse_text
    lines, line_no,         \* text.strip().split('\n') and the line being read
    parsed_words,           \* the list `words` of parse_text
    current_category,       \* None or the last category header
    current_word,           \* <<>> for None, <<record>> for the record in progress
    parse_pc,               \* position in parse_text
    document,               \* paragraph texts of the document given to parse_document
    para_no,                \* the paragraph being read
    doc_words,              \* the list `words` of parse_document
    doc_category,           \* current_category of parse_document
    doc_word,               \* current_word of parse_document: <<>> or <<record>>
    doc_pc,                 \* position in parse_document
    first_words,            \* records of the first parse, kept for the round trip
    pass_no,                \* 0, or 1 while the display text is parsed again
    flow,                   \* the tab of app.py that called generate_audio
    announced,              \* what the tab showed for the result of generate_audio
    session_audio,          \* the audio kept in st.session_state
    word_list,              \* the list returned by extract_word_list
    stored,                 \* <<>> or <<the content of words_history.json>>
    new_words,              \* argument of add_words_to_history
    current_words,          \* the local list of add_words_to_history
    hist_pc,                \* position in add_words_to_history
    hist_ret                \* value returned by add_words_to_history

audio_vars == <<words, settings, pc, temp_dir, file_counter, file_list, calls,
                silence_1s_path, silence_between_path, silence_test_path,
                i, word_files, concat_result, rmtree, exception, retval>>

parse_vars == <<text, lines, line_no, parsed_words, current_category,
                current_word, parse_pc>>

doc_vars == <<document, para_no, doc_words, doc_category, doc_word, doc_pc>>

trip_vars == <<first_words, pass_no>>

app_vars == <<flow, announced, session_audio>>

list_vars == <<word_list>>

hist_vars == <<stored, new_words, current_words, hist_pc, hist_ret>>

vars == <<audio_vars, parse_vars, doc_vars, trip_vars, app_vars, list_vars, hist_vars>>

NoPath == [kind |-> "none", n |-> 0]
SilencePath(n) == [kind |-> "silence", n |-> n]
AudioPath(n) == [kind |-> "audio", n |-> n]

ParserIdle ==
    /\ text = <<>>
    /\ lines = <<>>
    /\ line_no = 0
    /\ parsed_words = <<>>
    /\ current_category = None
    /\ current_word = <<>>
    /\ parse_pc = "idle"

DocIdle ==
    /\ document = <<>>
    /\ para_no = 0
    /\ doc_words = <<>>
    /\ doc_category = None
    /\ doc_word = <<>>
    /\ doc_pc = "idle"

TripIdle ==
    /\ first_words = <<>>
    /\ pass_no = 0

AppIdle ==
    /\ flow = "none"
    /\ announced = "none"
    /\ session_audio = "none"

ListIdle == word_list = <<>>

HistIdle ==
    /\ stored = <<>>
    /\ new_words = <<>>
    /\ current_words = <<>>
    /\ hist_pc = "idle"
    /\ hist_ret = "none"

Init ==
    /\ ParserIdle
    /\ DocIdle
    /\ TripIdle
    /\ AppIdle
    /\ ListIdle
    /\ HistIdle
    /\ words \in WordLists
    /\ settings \in SettingsSamples
    /\ pc = "start"
    /\ temp_dir = "none"
    /\ file_counter = 0
    /\ file_list = <<>>
    /\ calls = <<>>
    /\ silence_1s_path = NoPath
    /\ silence_between_path = NoPath
    /\ silence_test_path = NoPath
    /\ i = 0
    /\ word_files = <<>>
    /\ concat_result = "none"
    /\ rmtree = "not_called"
    /\ exception = "none"
    /\ retval = "none"

(***************************************************************************)
(* generate_audio, lines 49-65: read the settings, create the temp dir     *)
(***************************************************************************)
mkdtemp ==
    /\ pc = "start"
    /\ \/ /\ temp_dir' = "exists"
          /\ pc' = "silence_1s"
          /\ UNCHANGED exception
       \/ /\ temp_dir' = "none"
          /\ exception' = "mkdtemp"
          /\ pc' = "done"
    /\ file_counter' = 0
    /\ file_list' = <<>>
    /\ UNCHANGED <<words, settings, calls, silence_1s_path, silence_between_path,
                   silence_test_path, i, word_files, concat_result, rmtree, retval>>

(***************************************************************************)
(* _generate_silence: FFmpeg returns 0, returns non-zero (only printed),   *)
(* or subprocess.run raises                                                *)
(***************************************************************************)
SilenceDuration(which) ==
    CASE which = "silence_1s" -> OneSecond
      [] which = "silence_between" -> settings.pause_between
      [] which = "silence_test" -> TEST_PAUSE_DURATION

NextSilence(which) ==
    CASE which = "silence_1s" -> "silence_between"
      [] which = "silence_between" -> "silence_test"
      [] which = "silence_test" -> "loop"

generate_silence ==
    /\ pc \in {"silence_1s", "silence_between", "silence_test"}
    /\ \E out \in {"ok", "rc_nonzero", "raise"} :
        /\ file_counter' = file_counter + 1
        /\ calls' = Append(calls, [op |-> "silence", arg |-> <<SilenceDuration(pc)>>,
                                   speed |-> 0, out |-> out])
        /\ IF out = "raise"
           THEN /\ exception' = "silence"
                /\ pc' = "cleanup"
                /\ UNCHANGED <<silence_1s_path, silence_between_path, silence_test_path>>
           ELSE /\ pc' = NextSilence(pc)
                /\ silence_1s_path' =
                      IF pc = "silence_1s" THEN SilencePath(file_counter') ELSE silence_1s_path
                /\ silence_between_path' =
                      IF pc = "silence_between" THEN SilencePath(file_counter')
                      ELSE silence_between_path
                /\ silence_test_path' =
                      IF pc = "silence_test" THEN SilencePath(file_counter')
                      ELSE silence_test_path
                /\ UNCHANGED exception
    /\ UNCHANGED <<words, settings, temp_dir, file_list, i, word_files,
                   concat_result, rmtree, retval>>

(***************************************************************************)
(* Loop head, lines 74-88: next record, validity check, cleaning           *)
(***************************************************************************)
English(word) == strip(OrEmpty(word.english))
Polish(word) == strip(OrEmpty(word.polish))
Example(word) == strip(OrEmpty(word.example))

\* variant: only the headword is tested
Skipped_english_only(word) == English(word) = <<>>

\* line 79: if not english or not polish: continue
Skipped(word) == English(word) = <<>> \/ Polish(word) = <<>>

\* variant: the cleaned headword is written back into the record
for_next_write_back ==
    /\ pc = "loop"
    /\ IF i = Len(words)
       THEN /\ pc' = "concat"
            /\ UNCHANGED <<i, words>>
       ELSE /\ i' = i + 1
            /\ pc' = IF Skipped(words[i + 1]) THEN "loop" ELSE "word_files"
            /\ words' = IF Skipped(words[i + 1]) THEN words
                        ELSE [words EXCEPT ![i + 1].english =
                                             CleanEnglish(English(words[i + 1]))]
    /\ word_files' = <<>>
    /\ UNCHANGED <<settings, temp_dir, file_counter, file_list, calls,
                   silence_1s_path, silence_between_path, silence_test_path,
                   concat_result, rmtree, exception, retval>>

for_next ==
    /\ pc = "loop"
    /\ IF i = Len(words)
       THEN /\ pc' = "concat"
            /\ UNCHANGED i
       ELSE /\ i' = i + 1
            /\ pc' = IF Skipped(words[i + 1]) THEN "loop" ELSE "word_files"
    /\ word_files' = <<>>
    /\ UNCHANGED <<words, settings, temp_dir, file_counter, file_list, calls,
                   silence_1s_path, silence_between_path, silence_test_path,
                   concat_result, rmtree, exception, retval>>

(***************************************************************************)
(* _generate_word_files: the items of one record in order; "tts" items are *)
(* calls of _text_to_file, "silence" items are appended paths              *)
(***************************************************************************)
Tts(phrase) == [item |-> "tts", text |-> phrase, path |-> NoPath]
Sil(path) == [item |-> "silence", text |-> <<>>, path |-> path]

\* variant: the quiz branches fall through to the normal branch
WordPlan_no_quiz(english, polish, example, include_examples, test_mode, silence_1s, silence_test) ==
    <<Tts(english), Sil(silence_1s), Tts(polish)>>
    \o (IF include_examples /\ example # <<>>
        THEN <<Sil(silence_1s), Tts(example)>>
        ELSE <<>>)

\* variant: the normal branch does not test include_examples
WordPlan_always_example(english, polish, example, include_examples, test_mode, silence_1s, silence_test) ==
    IF test_mode = "pl_to_en"
    THEN <<Tts(polish), Sil(silence_test), Tts(english)>>
    ELSE IF test_mode = "en_to_pl"
    THEN <<Tts(english), Sil(silence_test), Tts(polish)>>
    ELSE <<Tts(english), Sil(silence_1s), Tts(polish)>>
         \o (IF example # <<>>
             THEN <<Sil(silence_1s), Tts(example)>>
             ELSE <<>>)

WordPlan(english, polish, example, include_examples, test_mode, silence_1s, silence_test) ==
    IF test_mode = "pl_to_en"
    THEN <<Tts(polish), Sil(silence_test), Tts(english)>>
    ELSE IF test_mode = "en_to_pl"
    THEN <<Tts(english), Sil(silence_test), Tts(polish)>>
    ELSE <<Tts(english), Sil(silence_1s), Tts(polish)>>
         \o (IF include_examples /\ example # <<>>
             THEN <<Sil(silence_1s), Tts(example)>>
             ELSE <<>>)

CurrentPlan ==
    WordPlan(CleanEnglish(English(words[i])), Polish(words[i]), Example(words[i]),
             settings.include_examples, settings.test_mode,
             silence_1s_path, silence_test_path)

(***************************************************************************)
(* _text_to_file: one call of text_to_speech; an exception propagates      *)
(***************************************************************************)
\* variant: an exception of text_to_speech is caught and the path is used anyway
text_to_file_swallow ==
    /\ pc = "word_files"
    /\ LET plan == CurrentPlan
           k == Len(word_files) + 1
       IN  \E out \in {"ok", "raise"} :
            /\ file_counter' = file_counter + 1
            /\ calls' = Append(calls, [op |-> "tts", arg |-> plan[k].text,
                                       speed |-> settings.speed, out |-> out])
            /\ word_files' =
                  Append(word_files, AudioPath(file_counter'))
                  \o (IF k < Len(plan) THEN <<plan[k + 1].path>> ELSE <<>>)
            /\ pc' = IF Len(word_files') = Len(plan) THEN "repeat" ELSE "word_files"
            /\ UNCHANGED exception
    /\ UNCHANGED <<words, settings, temp_dir, file_list, silence_1s_path,
                   silence_between_path, silence_test_path, i, concat_result,
                   rmtree, retval>>

text_to_file ==
    /\ pc = "word_files"
    /\ LET plan == CurrentPlan
           k == Len(word_files) + 1
       IN  \E out \in {"ok", "raise"} :
            /\ file_counter' = file_counter + 1
            /\ calls' = Append(calls, [op |-> "tts", arg |-> plan[k].text,
                                       speed |-> settings.speed, out |-> out])
            /\ IF out = "raise"
               THEN /\ exception' = "tts"
                    /\ pc' = "cleanup"
                    /\ UNCHANGED word_files
               ELSE /\ word_files' =
                          Append(word_files, AudioPath(file_counter'))
                          \o (IF k < Len(plan) THEN <<plan[k + 1].path>> ELSE <<>>)
                    /\ pc' = IF Len(word_files') = Len(plan) THEN "repeat" ELSE "word_files"
                    /\ UNCHANGED exception
    /\ UNCHANGED <<words, settings, temp_dir, file_list, silence_1s_path,
                   silence_between_path, silence_test_path, i, concat_result,
                   rmtree, retval>>

(***************************************************************************)
(* Lines 98-106: repetitions, then the pause between records               *)
(***************************************************************************)
\* variant: the files of the record are appended once, whatever repetitions is
Repetitions_once(list, files, rep, repetitions, silence_1s) == list \o files

\* variant: the 1.0s pause is appended after every repetition, the last included
RECURSIVE Repetitions_trailing(_, _, _, _, _)
Repetitions_trailing(list, files, rep, repetitions, silence_1s) ==
    IF rep >= repetitions THEN list
    ELSE Repetitions_trailing((list \o files) \o <<silence_1s>>,
                              files, rep + 1, repetitions, silence_1s)

\* variant: the files of the record are put in front of the list
RECURSIVE Repetitions_in_front(_, _, _, _, _)
Repetitions_in_front(list, files, rep, repetitions, silence_1s) ==
    IF rep >= repetitions THEN list
    ELSE Repetitions_in_front((files \o (IF rep < repetitions - 1 THEN <<silence_1s>> ELSE <<>>))
                                 \o list,
                              files, rep + 1, repetitions, silence_1s)

RECURSIVE Repetitions(_, _, _, _, _)
Repetitions(list, files, rep, repetitions, silence_1s) ==
    IF rep >= repetitions THEN list
    ELSE Repetitions((list \o files)
                        \o (IF rep < repetitions - 1 THEN <<silence_1s>> ELSE <<>>),
                     files, rep + 1, repetitions, silence_1s)

\* variant: the pause is appended after every record
PauseAfter_always(idx, n) == idx <= n

\* line 105: if i < len(words)
PauseAfter(idx, n) == idx < n

repeat ==
    /\ pc = "repeat"
    /\ file_list' =
          Repetitions(file_list, word_files, 0, settings.repetitions, silence_1s_path)
          \o (IF PauseAfter(i, Len(words)) THEN <<silence_between_path>> ELSE <<>>)
    /\ pc' = "loop"
    /\ UNCHANGED <<words, settings, temp_dir, file_counter, calls, silence_1s_path,
                   silence_between_path, silence_test_path, i, word_files,
                   concat_result, rmtree, exception, retval>>

(***************************************************************************)
(* _concat_files: a non-zero return code is only printed; FFmpeg may or    *)
(* may not have left an output file behind. With an empty filelist.txt the *)
(* concat demuxer finds no input, so FFmpeg exits non-zero before it opens *)
(* the output file.                                                        *)
(***************************************************************************)
ConcatOutcomes(list) ==
    IF list = <<>>
    THEN {"rc_nonzero_no_output", "raise"}
    ELSE {"ok", "rc_nonzero_no_output", "rc_nonzero_partial_output", "raise"}

concat_files ==
    /\ pc = "concat"
    /\ \E out \in ConcatOutcomes(file_list) :
        /\ concat_result' = out
        /\ IF out = "raise"
           THEN exception' = "concat" /\ pc' = "cleanup"
           ELSE pc' = "read" /\ UNCHANGED exception
    /\ UNCHANGED <<words, settings, temp_dir, file_counter, file_list, calls,
                   silence_1s_path, silence_between_path, silence_test_path,
                   i, word_files, rmtree, retval>>

(***************************************************************************)
(* Lines 115-126: read output.mp3 if it exists, else an empty buffer       *)
(***************************************************************************)
read_output ==
    /\ pc = "read"
    /\ retval' = CASE concat_result = "ok" -> "buffer"
                   [] concat_result = "rc_nonzero_partial_output" -> "partial_buffer"
                   [] OTHER -> "empty_buffer"
    /\ pc' = "cleanup"
    /\ UNCHANGED <<words, settings, temp_dir, file_counter, file_list, calls,
                   silence_1s_path, silence_between_path, silence_test_path,
                   i, word_files, concat_result, rmtree, exception>>

(***************************************************************************)
(* finally: _cleanup; a failing rmtree is printed and swallowed            *)
(***************************************************************************)
\* variant: _cleanup called at the end of the try body instead of in finally
cleanup_no_finally ==
    /\ pc = "cleanup"
    /\ IF exception = "none"
       THEN \E ok \in BOOLEAN :
               /\ rmtree' = IF ok THEN "ok" ELSE "failed"
               /\ temp_dir' = IF ok THEN "deleted" ELSE "exists"
       ELSE UNCHANGED <<rmtree, temp_dir>>
    /\ pc' = "done"
    /\ UNCHANGED <<words, settings, file_counter, file_list, calls,
                   silence_1s_path, silence_between_path, silence_test_path,
                   i, word_files, concat_result, exception, retval>>

cleanup ==
    /\ pc = "cleanup"
    /\ \E ok \in BOOLEAN :
        /\ rmtree' = IF ok THEN "ok" ELSE "failed"
        /\ temp_dir' = IF ok THEN "deleted" ELSE "exists"
    /\ pc' = "done"
    /\ UNCHANGED <<words, settings, file_counter, file_list, calls,
                   silence_1s_path, silence_between_path, silence_test_path,
                   i, word_files, concat_result, exception, retval>>

(***************************************************************************)
(* The two callers in app.py. Both call generate_audio only for a          *)
(* non-empty list (lines 370 and 476) and catch every exception.           *)
(***************************************************************************)
\* app.py lines 383-407: the length of the result is tested before it is kept
tab_generate_words ==
    /\ pc = "done"
    /\ announced = "none"
    /\ words # <<>>
    /\ flow' = "tab_generate_words"
    /\ IF exception # "none"
       THEN announced' = "error" /\ UNCHANGED session_audio
       ELSE IF retval = "empty_buffer"
       THEN announced' = "error_zero_bytes" /\ UNCHANGED session_audio
       ELSE announced' = "success" /\ session_audio' = retval
    /\ UNCHANGED audio_vars

\* app.py lines 559-570: the result is kept and announced as it is
tab_convert_file ==
    /\ pc = "done"
    /\ announced = "none"
    /\ words # <<>>
    /\ flow' = "tab_convert_file"
    /\ IF exception # "none"
       THEN announced' = "error" /\ UNCHANGED session_audio
       ELSE announced' = "success" /\ session_audio' = retval
    /\ UNCHANGED audio_vars

Next ==
    \/ tab_generate_words /\ UNCHANGED <<parse_vars, doc_vars, trip_vars, list_vars, hist_vars>>
    \/ tab_convert_file /\ UNCHANGED <<parse_vars, doc_vars, trip_vars, list_vars, hist_vars>>
    \/ mkdtemp /\ UNCHANGED <<parse_vars, doc_vars, trip_vars, app_vars, list_vars, hist_vars>>
    \/ generate_silence /\ UNCHANGED <<parse_vars, doc_vars, trip_vars, app_vars, list_vars, hist_vars>>
    \/ for_next /\ UNCHANGED <<parse_vars, doc_vars, trip_vars, app_vars, list_vars, hist_vars>>
    \/ text_to_file /\ UNCHANGED <<parse_vars, doc_vars, trip_vars, app_vars, list_vars, hist_vars>>
    \/ repeat /\ UNCHANGED <<parse_vars, doc_vars, trip_vars, app_vars, list_vars, hist_vars>>
    \/ concat_files /\ UNCHANGED <<parse_vars, doc_vars, trip_vars, app_vars, list_vars, hist_vars>>
    \/ read_output /\ UNCHANGED <<parse_vars, doc_vars, trip_vars, app_vars, list_vars, hist_vars>>
    \/ cleanup /\ UNCHANGED <<parse_vars, doc_vars, trip_vars, app_vars, list_vars, hist_vars>>

Spec == Init /\ [][Next]_vars

(***************************************************************************)
(* Characters and string functions used by the parser                      *)
(***************************************************************************)
Digits == {"0", "1"}
LowerCase == {"a", "b", "c", "e", "x"}
UpperCase == {"A", "B", "C", "E", "X"}
\* the en dash U+2013 of the pattern [\u2013-]
EnDash == "en-dash"
Dashes == {EnDash, "-"}

ToLower(c) ==
    CASE c = "A" -> "a" [] c = "B" -> "b" [] c = "C" -> "c"
      [] c = "E" -> "e" [] c = "X" -> "x" [] OTHER -> c

lower(s) == [n \in DOMAIN s |-> ToLower(s[n])]

\* str.isupper: at least one cased character and no lower-case one
isupper(s) ==
    /\ \E n \in DOMAIN s : s[n] \in UpperCase
    /\ \A n \in DOMAIN s : s[n] \notin LowerCase

DigitValue(c) == IF c = "1" THEN 1 ELSE 0

\* int(word_match.group(1))
RECURSIVE ToInt(_)
ToInt(ds) ==
    IF ds = <<>> THEN 0
    ELSE 10 * ToInt(SubSeq(ds, 1, Len(ds) - 1)) + DigitValue(ds[Len(ds)])

\* first position from p on whose character is not in S (Len(s) + 1 if none)
RECURSIVE SkipIn(_, _, _)
SkipIn(s, p, S) ==
    IF p <= Len(s) /\ s[p] \in S THEN SkipIn(s, p + 1, S) ELSE p

\* first position from p on whose character is in S (Len(s) + 1 if none)
RECURSIVE SkipNot(_, _, _)
SkipNot(s, p, S) ==
    IF p <= Len(s) /\ s[p] \notin S THEN SkipNot(s, p + 1, S) ELSE p

\* s.split(c)
RECURSIVE split(_, _)
split(s, c) ==
    LET p == FindChar(s, c, 1)
    IN  IF p = 0 THEN <<s>>
        ELSE <<SubSeq(s, 1, p - 1)>> \o split(SubSeq(s, p + 1, Len(s)), c)

startswith(s, prefix) ==
    Len(s) >= Len(prefix) /\ SubSeq(s, 1, Len(prefix)) = prefix

\* s.find(sub) + 1 : position of the first occurrence of sub, 0 when absent
RECURSIVE FindSub(_, _, _)
FindSub(s, sub, from) ==
    IF from + Len(sub) - 1 > Len(s) THEN 0
    ELSE IF SubSeq(s, from, from + Len(sub) - 1) = sub THEN from
    ELSE FindSub(s, sub, from + 1)

ExPrefix == <<"e", "x", ":">>

(***************************************************************************)
(* word_pattern  (\d+)\.\s+(.+?)\s*\(([^)]+)\)\s*[\u2013-]\s*(.+)  under        *)
(* re.match, applied to a stripped string.  After the lazy group 2 the     *)
(* rest of the pattern matches in at most one way; re tries the longest    *)
(* \s+ first and for it the shortest group 2 first.                        *)
(***************************************************************************)
NoMatch == [ok |-> FALSE, g1 |-> <<>>, g2 |-> <<>>, g3 |-> <<>>, g4 |-> <<>>]

\* \s*\(([^)]+)\)\s*[\u2013-]\s*(.+) from position r
PatternTail(s, r) ==
    LET a == SkipIn(s, r, WS)
        b == SkipNot(s, a + 1, {")"})
        c == SkipIn(s, b + 1, WS)
        t == SkipIn(s, c + 1, WS)
        e == SkipNot(s, t, {"\n"})
    IN  IF /\ a <= Len(s) /\ s[a] = "("
           /\ b > a + 1 /\ b <= Len(s)
           /\ c <= Len(s) /\ s[c] \in Dashes
           /\ e > t
        THEN [ok |-> TRUE, g3 |-> SubSeq(s, a + 1, b - 1), g4 |-> SubSeq(s, t, e - 1)]
        ELSE [ok |-> FALSE, g3 |-> <<>>, g4 |-> <<>>]

word_match(s) ==
    LET d == SkipIn(s, 1, Digits)
    IN  IF d = 1 \/ d > Len(s) \/ s[d] # "." THEN NoMatch
        ELSE
          LET ws_end == SkipIn(s, d + 1, WS)
              cands == {c \in ((d + 2)..ws_end) \X (1..Len(s)) :
                          /\ c[1] + c[2] - 1 <= Len(s)
                          /\ \A n \in c[1]..(c[1] + c[2] - 1) : s[n] # "\n"
                          /\ PatternTail(s, c[1] + c[2]).ok}
          IN  IF cands = {} THEN NoMatch
              ELSE
                LET best == CHOOSE c \in cands : \A o \in cands :
                                \/ c[1] > o[1]
                                \/ (c[1] = o[1] /\ c[2] <= o[2])
                    tail == PatternTail(s, best[1] + best[2])
                IN  [ok |-> TRUE,
                     g1 |-> SubSeq(s, 1, d - 1),
                     g2 |-> SubSeq(s, best[1], best[1] + best[2] - 1),
                     g3 |-> tail.g3,
                     g4 |-> tail.g4]

\* re.match(r'^-+$', line)
is_separator(s) == s # <<>> /\ \A n \in DOMAIN s : s[n] = "-"

\* example_pattern  ^ex:\s*(.+)$  with re.IGNORECASE, on a stripped string
example_match(s) ==
    LET t == SkipIn(s, 4, WS)
    IN  IF /\ startswith(lower(s), ExPrefix)
           /\ t <= Len(s)
           /\ \A n \in t..Len(s) : s[n] # "\n"
        THEN [ok |-> TRUE, g1 |-> SubSeq(s, t, Len(s))]
        ELSE [ok |-> FALSE, g1 |-> <<>>]

(***************************************************************************)
(* parse_text                                                              *)
(***************************************************************************)
\* lines 194-207: the translation, split at the first "ex:" if it has one
SplitPolish(polish_text) ==
    LET ex_pos == FindSub(lower(polish_text), ExPrefix, 1)
    IN  IF ex_pos # 0
        THEN [polish |-> strip(SubSeq(polish_text, 1, ex_pos - 1)),
              example |-> strip(SubSeq(polish_text, ex_pos + 3, Len(polish_text)))]
        ELSE [polish |-> polish_text, example |-> None]

\* variant: the pronunciation group is stored without .strip()
NewWord_untrimmed(m, category) ==
    LET sp == SplitPolish(strip(m.g4))
    IN  [number |-> ToInt(m.g1),
         english |-> strip(m.g2),
         pronunciation |-> m.g3,
         polish |-> sp.polish,
         example |-> sp.example,
         category |-> category]

\* variant: the current category is not stored in the record
NewWord_no_category(m, category) ==
    LET sp == SplitPolish(strip(m.g4))
    IN  [number |-> ToInt(m.g1),
         english |-> strip(m.g2),
         pronunciation |-> strip(m.g3),
         polish |-> sp.polish,
         example |-> sp.example,
         category |-> None]

\* lines 194-217: the record started by a headword line
NewWord(m, category) ==
    LET sp == SplitPolish(strip(m.g4))
    IN  [number |-> ToInt(m.g1),
         english |-> strip(m.g2),
         pronunciation |-> strip(m.g3),
         polish |-> sp.polish,
         example |-> sp.example,
         category |-> category]

\* variant: the headword rule is tried before the category rule
LineKind_headword_first(line, has_word) ==
    IF line = <<>> \/ is_separator(line) THEN "skip"
    ELSE IF word_match(line).ok THEN "headword"
    ELSE IF isupper(line) /\ Len(line) > 2 THEN "category"
    ELSE IF example_match(line).ok /\ has_word THEN "example"
    ELSE IF startswith(lower(line), ExPrefix) /\ has_word THEN "example_prefix"
    ELSE "other"

\* variant: the category rule does not test isupper
LineKind_any_case_category(line, has_word) ==
    IF line = <<>> \/ is_separator(line) THEN "skip"
    ELSE IF Len(line) > 2 /\ ~word_match(line).ok /\ ~startswith(lower(line), ExPrefix)
    THEN "category"
    ELSE IF word_match(line).ok THEN "headword"
    ELSE IF example_match(line).ok /\ has_word THEN "example"
    ELSE IF startswith(lower(line), ExPrefix) /\ has_word THEN "example_prefix"
    ELSE "other"

\* the rule of lines 178-229 that handles a stripped line, first match wins
LineKind(line, has_word) ==
    IF line = <<>> \/ is_separator(line) THEN "skip"
    ELSE IF isupper(line) /\ Len(line) > 2 THEN "category"
    ELSE IF word_match(line).ok THEN "headword"
    ELSE IF example_match(line).ok /\ has_word THEN "example"
    ELSE IF startswith(lower(line), ExPrefix) /\ has_word THEN "example_prefix"
    ELSE "other"

\* Inputs of parse_text
HeadwordLines ==
    { lead \o num \o <<".">> \o sp1 \o word \o sp2 \o <<"(">> \o pron \o <<")">>
           \o sp3 \o <<dash>> \o sp4 \o trans :
        lead \in {<<>>, <<" ">>},
        num \in {<<"1">>, <<"0", "1">>},
        sp1 \in {<<" ">>, <<" ", " ">>},
        word \in {<<"a">>, <<"A">>, <<"a", " ", "b">>, <<"(", "a">>},
        sp2 \in {<<>>, <<" ">>},
        pron \in {<<"a">>, <<" ", "a", " ">>, <<"A">>},
        sp3 \in {<<>>, <<" ">>},
        dash \in Dashes,
        sp4 \in {<<>>, <<" ">>},
        trans \in {<<"b">>, <<"B">>, <<"b", " ", "e", "x", ":", " ", "e">>,
                   <<"E", "X", ":", "e">>, <<"b", "-", "c">>} }

SmallLines ==
    { <<>>,
      <<"-", "-">>,
      <<"C", "A", "B">>,
      <<"1", ".", " ", "a", " ", "(", "a", ")", " ", EnDash, " ", "b">>,
      <<"1", "0", ".", " ", "b", "(", "a", ")", "-", "c", " ", "e", "x", ":", "e">>,
      <<"e", "x", ":", " ", "e">>,
      <<"E", "x", ":">>,
      <<"E", "X", ":", "E">>,
      <<"1", ".", " ", "A", "(", "A", ")", "-", "B">>,
      <<"a", "b", "c">> }

RECURSIVE JoinLines(_)
JoinLines(ls) ==
    IF ls = <<>> THEN <<>>
    ELSE IF Len(ls) = 1 THEN ls[1]
    ELSE ls[1] \o <<"\n">> \o JoinLines(Tail(ls))

Texts ==
    HeadwordLines
    \cup { JoinLines(ls) : ls \in UNION { [1..n -> SmallLines] : n \in 0..MaxLines } }

AudioIdle ==
    /\ words = <<>>
    /\ settings = [speed |-> 10, pause_between |-> 20, repetitions |-> 1,
                   include_examples |-> TRUE, test_mode |-> "None"]
    /\ pc = "idle"
    /\ temp_dir = "none"
    /\ file_counter = 0
    /\ file_list = <<>>
    /\ calls = <<>>
    /\ silence_1s_path = NoPath
    /\ silence_between_path = NoPath
    /\ silence_test_path = NoPath
    /\ i = 0
    /\ word_files = <<>>
    /\ concat_result = "none"
    /\ rmtree = "not_called"
    /\ exception = "none"
    /\ retval = "none"

ParseInit ==
    /\ AudioIdle
    /\ DocIdle
    /\ TripIdle
    /\ AppIdle
    /\ ListIdle
    /\ HistIdle
    /\ text \in Texts
    /\ lines = <<>>
    /\ line_no = 0
    /\ parsed_words = <<>>
    /\ current_category = None
    /\ current_word = <<>>
    /\ parse_pc = "start"

\* line 171: lines = text.strip().split('\n')
split_lines ==
    /\ parse_pc = "start"
    /\ lines' = split(strip(text), "\n")
    /\ parse_pc' = "loop"
    /\ UNCHANGED <<text, line_no, parsed_words, current_category, current_word>>

HasOwnExample(line) == SplitPolish(strip(word_match(line).g4)).example # None

\* variant: a category header closes the record in progress
parse_line_header_closes ==
    /\ parse_pc = "loop"
    /\ line_no < Len(lines)
    /\ line_no' = line_no + 1
    /\ LET line == strip(lines[line_no + 1])
           kind == LineKind(line, current_word # <<>>)
       IN  CASE kind = "category" ->
                  /\ current_category' = line
                  /\ parsed_words' = parsed_words \o current_word
                  /\ current_word' = <<>>
             [] kind = "headword" ->
                  /\ parsed_words' = parsed_words \o current_word
                  /\ current_word' = <<NewWord(word_match(line), current_category)>>
                  /\ UNCHANGED current_category
             [] kind = "example" ->
                  /\ current_word' =
                        <<[current_word[1] EXCEPT !.example = strip(example_match(line).g1)]>>
                  /\ UNCHANGED <<parsed_words, current_category>>
             [] kind = "example_prefix" ->
                  /\ current_word' =
                        <<[current_word[1] EXCEPT !.example = strip(SubSeq(line, 4, Len(line)))]>>
                  /\ UNCHANGED <<parsed_words, current_category>>
             [] OTHER ->
                  UNCHANGED <<parsed_words, current_category, current_word>>
    /\ UNCHANGED <<text, lines, parse_pc>>

\* variant: a headword line keeps the example of the record in progress
parse_line_keep_example ==
    /\ parse_pc = "loop"
    /\ line_no < Len(lines)
    /\ line_no' = line_no + 1
    /\ LET line == strip(lines[line_no + 1])
           kind == LineKind(line, current_word # <<>>)
       IN  CASE kind = "category" ->
                  /\ current_category' = line
                  /\ UNCHANGED <<parsed_words, current_word>>
             [] kind = "headword" ->
                  /\ parsed_words' = parsed_words \o current_word
                  /\ current_word' =
                        <<IF current_word = <<>> \/ HasOwnExample(line)
                          THEN NewWord(word_match(line), current_category)
                          ELSE [NewWord(word_match(line), current_category)
                                  EXCEPT !.example = current_word[1].example]>>
                  /\ UNCHANGED current_category
             [] kind = "example" ->
                  /\ current_word' =
                        <<[current_word[1] EXCEPT !.example = strip(example_match(line).g1)]>>
                  /\ UNCHANGED <<parsed_words, current_category>>
             [] kind = "example_prefix" ->
                  /\ current_word' =
                        <<[current_word[1] EXCEPT !.example = strip(SubSeq(line, 4, Len(line)))]>>
                  /\ UNCHANGED <<parsed_words, current_category>>
             [] OTHER ->
                  UNCHANGED <<parsed_words, current_category, current_word>>
    /\ UNCHANGED <<text, lines, parse_pc>>

\* lines 173-229: one iteration of the loop over the lines
parse_line ==
    /\ parse_pc = "loop"
    /\ line_no < Len(lines)
    /\ line_no' = line_no + 1
    /\ LET line == strip(lines[line_no + 1])
           kind == LineKind(line, current_word # <<>>)
       IN  CASE kind = "category" ->
                  /\ current_category' = line
                  /\ UNCHANGED <<parsed_words, current_word>>
             [] kind = "headword" ->
                  /\ parsed_words' = parsed_words \o current_word
                  /\ current_word' = <<NewWord(word_match(line), current_category)>>
                  /\ UNCHANGED current_category
             [] kind = "example" ->
                  /\ current_word' =
                        <<[current_word[1] EXCEPT !.example = strip(example_match(line).g1)]>>
                  /\ UNCHANGED <<parsed_words, current_category>>
             [] kind = "example_prefix" ->
                  /\ current_word' =
                        <<[current_word[1] EXCEPT !.example = strip(SubSeq(line, 4, Len(line)))]>>
                  /\ UNCHANGED <<parsed_words, current_category>>
             [] OTHER ->
                  UNCHANGED <<parsed_words, current_category, current_word>>
    /\ UNCHANGED <<text, lines, parse_pc>>

\* variant: the list is returned without the record in progress
parse_return_drop ==
    /\ parse_pc = "loop"
    /\ line_no = Len(lines)
    /\ parse_pc' = "done"
    /\ UNCHANGED <<text, lines, line_no, parsed_words, current_category, current_word>>

\* lines 231-235: the record in progress is appended, the list is returned
parse_return ==
    /\ parse_pc = "loop"
    /\ line_no = Len(lines)
    /\ parsed_words' = parsed_words \o current_word
    /\ parse_pc' = "done"
    /\ UNCHANGED <<text, lines, line_no, current_category, current_word>>

ParseNext ==
    \/ split_lines /\ UNCHANGED <<audio_vars, doc_vars, trip_vars, app_vars, list_vars, hist_vars>>
    \/ parse_line /\ UNCHANGED <<audio_vars, doc_vars, trip_vars, app_vars, list_vars, hist_vars>>
    \/ parse_return /\ UNCHANGED <<audio_vars, doc_vars, trip_vars, app_vars, list_vars, hist_vars>>

ParseSpec == ParseInit /\ [][ParseNext]_vars

(***************************************************************************)
(* parse_document: the paragraphs of the document are its input            *)
(***************************************************************************)
\* lines 97-104 and 115-122: the record started by a headword paragraph
NewDocWord(m, example_text, category) ==
    [number |-> ToInt(m.g1),
     english |-> strip(m.g2),
     pronunciation |-> strip(m.g3),
     polish |-> strip(m.g4),
     example |-> example_text,
     category |-> category]

\* lines 78-82: first and second line of a paragraph that contains '\n'
WordLine(para) == strip(split(para, "\n")[1])
ExampleLine(para) == strip(split(para, "\n")[2])

\* lines 92-94: the example of a paragraph "<word-line>\nex: <example>"
PairedExample(para) ==
    IF startswith(lower(ExampleLine(para)), ExPrefix)
    THEN strip(SubSeq(ExampleLine(para), 4, Len(ExampleLine(para))))
    ELSE None

\* the rule of lines 67-135 that handles a stripped paragraph, first match wins
ParaKind(para, has_word) ==
    IF para = <<>> \/ is_separator(para) THEN "skip"
    ELSE IF isupper(para) /\ Len(para) > 2 THEN "category"
    ELSE IF FindChar(para, "\n", 1) # 0 /\ word_match(WordLine(para)).ok THEN "paired"
    ELSE IF word_match(para).ok THEN "headword"
    ELSE IF example_match(para).ok /\ has_word THEN "example"
    ELSE IF /\ startswith(lower(para), ExPrefix) /\ has_word
            /\ strip(SubSeq(para, 4, Len(para))) # <<>> THEN "example_prefix"
    ELSE "other"

\* Inputs of parse_document
Blocks ==
    SmallLines
    \cup { <<"1", ".", " ", "a", "(", "a", ")", "-", "b", "\n", "e", "x", ":", " ", "e">> }

Documents ==
    { <<l>> : l \in HeadwordLines }
    \cup UNION { [1..n -> Blocks] : n \in 0..MaxLines }

\* the document and its paragraphs joined by newlines are parsed in turn
DocInit ==
    /\ AudioIdle
    /\ TripIdle
    /\ AppIdle
    /\ ListIdle
    /\ HistIdle
    /\ document \in Documents
    /\ para_no = 0
    /\ doc_words = <<>>
    /\ doc_category = None
    /\ doc_word = <<>>
    /\ doc_pc = "start"
    /\ text = JoinLines(document)
    /\ lines = <<>>
    /\ line_no = 0
    /\ parsed_words = <<>>
    /\ current_category = None
    /\ current_word = <<>>
    /\ parse_pc = "start"

\* lines 40-59: the document is opened once parse_text has returned
open_document ==
    /\ doc_pc = "start"
    /\ parse_pc = "done"
    /\ doc_pc' = "loop"
    /\ UNCHANGED <<document, para_no, doc_words, doc_category, doc_word>>

\* lines 62-135: one iteration of the loop over the paragraphs
parse_paragraph ==
    /\ doc_pc = "loop"
    /\ para_no < Len(document)
    /\ para_no' = para_no + 1
    /\ LET para == strip(document[para_no + 1])
           kind == ParaKind(para, doc_word # <<>>)
       IN  CASE kind = "category" ->
                  /\ doc_category' = para
                  /\ UNCHANGED <<doc_words, doc_word>>
             [] kind = "paired" ->
                  /\ doc_words' = doc_words \o doc_word
                  /\ doc_word' = <<NewDocWord(word_match(WordLine(para)),
                                              PairedExample(para), doc_category)>>
                  /\ UNCHANGED doc_category
             [] kind = "headword" ->
                  /\ doc_words' = doc_words \o doc_word
                  /\ doc_word' = <<NewDocWord(word_match(para), None, doc_category)>>
                  /\ UNCHANGED doc_category
             [] kind = "example" ->
                  /\ doc_word' =
                        <<[doc_word[1] EXCEPT !.example = strip(example_match(para).g1)]>>
                  /\ UNCHANGED <<doc_words, doc_category>>
             [] kind = "example_prefix" ->
                  /\ doc_word' =
                        <<[doc_word[1] EXCEPT !.example = strip(SubSeq(para, 4, Len(para)))]>>
                  /\ UNCHANGED <<doc_words, doc_category>>
             [] OTHER ->
                  UNCHANGED <<doc_words, doc_category, doc_word>>
    /\ UNCHANGED <<document, doc_pc>>

\* lines 137-141: the record in progress is appended, the list is returned
document_return ==
    /\ doc_pc = "loop"
    /\ para_no = Len(document)
    /\ doc_words' = doc_words \o doc_word
    /\ doc_pc' = "done"
    /\ UNCHANGED <<document, para_no, doc_category, doc_word>>

DocNext ==
    \/ split_lines /\ UNCHANGED <<audio_vars, doc_vars, trip_vars, app_vars, list_vars, hist_vars>>
    \/ parse_line /\ UNCHANGED <<audio_vars, doc_vars, trip_vars, app_vars, list_vars, hist_vars>>
    \/ parse_return /\ UNCHANGED <<audio_vars, doc_vars, trip_vars, app_vars, list_vars, hist_vars>>
    \/ open_document /\ UNCHANGED <<audio_vars, parse_vars, trip_vars, app_vars, list_vars, hist_vars>>
    \/ parse_paragraph /\ UNCHANGED <<audio_vars, parse_vars, trip_vars, app_vars, list_vars, hist_vars>>
    \/ document_return /\ UNCHANGED <<audio_vars, parse_vars, trip_vars, app_vars, list_vars, hist_vars>>

DocSpec == DocInit /\ [][DocNext]_vars

(***************************************************************************)
(* format_words_for_display (word_parser.py lines 249-283) and its output  *)
(* read back by parse_text                                                 *)
(***************************************************************************)
DigitChars == <<"0", "1", "2", "3", "4", "5", "6", "7", "8", "9">>

\* str(number) inside the f-string of line 276
RECURSIVE ToStr(_)
ToStr(n) ==
    IF n < 10 THEN <<DigitChars[n + 1]>>
    ELSE ToStr(n \div 10) \o <<DigitChars[(n % 10) + 1]>>

\* Python truth value of an optional string
Truthy(v) == v # None /\ v # <<>>

\* lines 260-265: the keys of the dict, in order of first insertion
RECURSIVE CategoryKeys(_)
CategoryKeys(ws) ==
    IF ws = <<>> THEN <<>>
    ELSE LET before == CategoryKeys(SubSeq(ws, 1, Len(ws) - 1))
             c == ws[Len(ws)].category
         IN  IF \E k \in DOMAIN before : before[k] = c THEN before
             ELSE Append(before, c)

\* lines 274-281: the entry line and, if the example is set, the example line
FormatWord(word) ==
    <<ToStr(word.number) \o <<".", " ", "*", "*">> \o word.english
        \o <<"*", "*", " ", "(">> \o word.pronunciation \o <<")", " ", EnDash, " ">> \o word.polish>>
    \o (IF Truthy(word.example)
        THEN << <<" ", " ", " ", "*", "e", "x", ":", " ">> \o word.example \o <<"*">> >>
        ELSE <<>>)

RECURSIVE FormatWords(_)
FormatWords(ws) ==
    IF ws = <<>> THEN <<>> ELSE FormatWord(Head(ws)) \o FormatWords(Tail(ws))

\* lines 270-281: the optional header of a category and its entries
FormatCategory(category, ws) ==
    (IF Truthy(category)
     THEN << <<"\n", "*", "*">> \o category \o <<"*", "*", "\n">> >>
     ELSE <<>>)
    \o FormatWords(SelectSeq(ws, LAMBDA w : w.category = category))

RECURSIVE FormatCategories(_, _)
FormatCategories(keys, ws) ==
    IF keys = <<>> THEN <<>>
    ELSE FormatCategory(Head(keys), ws) \o FormatCategories(Tail(keys), ws)

\* line 283: "\n".join(result)
format_words_for_display(ws) == JoinLines(FormatCategories(CategoryKeys(ws), ws))

\* the list returned by parse_text is formatted and the text is parsed again
reparse_display ==
    /\ parse_pc = "done"
    /\ pass_no = 0
    /\ first_words' = parsed_words
    /\ pass_no' = 1
    /\ text' = format_words_for_display(parsed_words)
    /\ lines' = <<>>
    /\ line_no' = 0
    /\ parsed_words' = <<>>
    /\ current_category' = None
    /\ current_word' = <<>>
    /\ parse_pc' = "start"

TripNext ==
    \/ ParseNext
    \/ reparse_display /\ UNCHANGED <<audio_vars, doc_vars, app_vars, list_vars, hist_vars>>

TripSpec == ParseInit /\ [][TripNext]_vars

(***************************************************************************)
(* extract_word_list (word_parser.py lines 237-247), called on the list    *)
(* returned by parse_text (app.py lines 247-248)                           *)
(***************************************************************************)
RECURSIVE extract_word_list(_)
extract_word_list(ws) ==
    IF ws = <<>> THEN <<>>
    ELSE (IF Truthy(Head(ws).english) THEN <<lower(Head(ws).english)>> ELSE <<>>)
         \o extract_word_list(Tail(ws))

extract_words ==
    /\ parse_pc = "done"
    /\ word_list' = extract_word_list(parsed_words)
    /\ parse_pc' = "listed"
    /\ UNCHANGED <<text, lines, line_no, parsed_words, current_category, current_word>>

ListNext ==
    \/ split_lines /\ UNCHANGED <<audio_vars, doc_vars, trip_vars, app_vars, list_vars, hist_vars>>
    \/ parse_line /\ UNCHANGED <<audio_vars, doc_vars, trip_vars, app_vars, list_vars, hist_vars>>
    \/ parse_return /\ UNCHANGED <<audio_vars, doc_vars, trip_vars, app_vars, list_vars, hist_vars>>
    \/ extract_words /\ UNCHANGED <<audio_vars, doc_vars, trip_vars, app_vars, hist_vars>>

ListSpec == ParseInit /\ [][ListNext]_vars

(***************************************************************************)
(* The word history of database.py: get_words_history (lines 152-185) and  *)
(* add_words_to_history (lines 187-225) over the blob words_history.json   *)
(***************************************************************************)
MaxNew == 2

RawWords == { <<"A">>, <<" ", "a">>, <<"b">>, <<"C", " ">>, <<>>, <<" ">> }

NewWordLists == UNION { [1..n -> RawWords] : n \in 0..MaxNew }

\* history.get('words', []) of the stored file, [] when there is none
StoredWords(st) == IF st = <<>> THEN <<>> ELSE st[1].words

Contains(list, w) == \E n \in DOMAIN list : list[n] = w

\* variant: a word is appended without the membership test
RECURSIVE Merge_no_membership_test(_, _)
Merge_no_membership_test(list, added) ==
    IF added = <<>> THEN list
    ELSE LET word_lower == strip(lower(Head(added)))
         IN  Merge_no_membership_test(IF word_lower # <<>> THEN Append(list, word_lower)
                                      ELSE list,
                                      Tail(added))

\* lines 202-205: every new word, lower-cased and trimmed, is appended unless
\* it is empty or already in the list
RECURSIVE Merge(_, _)
Merge(list, added) ==
    IF added = <<>> THEN list
    ELSE LET word_lower == strip(lower(Head(added)))
         IN  Merge(IF word_lower # <<>> /\ ~Contains(list, word_lower)
                   THEN Append(list, word_lower)
                   ELSE list,
                   Tail(added))

HistInit ==
    /\ AudioIdle
    /\ ParserIdle
    /\ DocIdle
    /\ TripIdle
    /\ AppIdle
    /\ ListIdle
    /\ HistIdle

\* line 187: a call with some list of words
add_words_to_history ==
    /\ hist_pc \in {"idle", "returned"}
    /\ new_words' \in NewWordLists
    /\ current_words' = <<>>
    /\ hist_ret' = "none"
    /\ hist_pc' = "get"
    /\ UNCHANGED stored

\* line 199 and lines 152-185: the stored words, or [] when no history file
\* is listed or when listing, downloading or decoding raises
get_words_history ==
    /\ hist_pc = "get"
    /\ \E out \in {"ok", "raise"} :
          current_words' = IF out = "ok" THEN StoredWords(stored) ELSE <<>>
    /\ hist_pc' = "merge"
    /\ UNCHANGED <<stored, new_words, hist_ret>>

\* lines 201-205
merge_words ==
    /\ hist_pc = "merge"
    /\ current_words' = Merge(current_words, new_words)
    /\ hist_pc' = "upload"
    /\ UNCHANGED <<stored, new_words, hist_ret>>

\* lines 207-225: the file is written and True returned, or upload_file
\* raises and False is returned
upload_history ==
    /\ hist_pc = "upload"
    /\ \E out \in {"ok", "raise"} :
          IF out = "ok"
          THEN /\ stored' = <<[words |-> current_words, total_count |-> Len(current_words)]>>
               /\ hist_ret' = TRUE
          ELSE /\ hist_ret' = FALSE
               /\ UNCHANGED stored
    /\ hist_pc' = "returned"
    /\ UNCHANGED <<new_words, current_words>>

HistNext ==
    \/ add_words_to_history /\ UNCHANGED <<audio_vars, parse_vars, doc_vars, trip_vars, app_vars, list_vars>>
    \/ get_words_history /\ UNCHANGED <<audio_vars, parse_vars, doc_vars, trip_vars, app_vars, list_vars>>
    \/ merge_words /\ UNCHANGED <<audio_vars, parse_vars, doc_vars, trip_vars, app_vars, list_vars>>
    \/ upload_history /\ UNCHANGED <<audio_vars, parse_vars, doc_vars, trip_vars, app_vars, list_vars>>

HistSpec == HistInit /\ [][HistNext]_vars

(***************************************************************************)
(* Derived values used by the properties of generate_audio                 *)
(***************************************************************************)
\* the loop over the records has run to its end: file_list is final
ListComplete == pc = "concat" \/ concat_result # "none"

Count(seq, x) == Cardinality({n \in DOMAIN seq : seq[n] = x})
SpeechSegments == {n \in DOMAIN file_list : file_list[n].kind = "audio"}
TtsCalls == {n \in DOMAIN calls : calls[n].op = "tts"}
SilenceCalls == {n \in DOMAIN calls : calls[n].op = "silence"}
Spoken == {n \in DOMAIN words : ~Skipped(words[n])}
ConcatFailed == concat_result \in {"rc_nonzero_no_output", "rc_nonzero_partial_output"}
TtsRaised == \E n \in TtsCalls : calls[n].out = "raise"
Created == exception # "mkdtemp"

\* C1: once the loop has ended, the inter-entry silence stands exactly once
\* between the groups of consecutive spoken records (one fewer than the
\* spoken records, never first, never doubled) and never after the last one.
C1_PauseOnlyBetweenSpoken ==
    ListComplete =>
        /\ Count(file_list, silence_between_path)
              = (IF Spoken = {} THEN 0 ELSE Cardinality(Spoken) - 1)
        /\ file_list # <<>> =>
              /\ file_list[Len(file_list)] # silence_between_path
              /\ file_list[1] # silence_between_path
        /\ \A n \in 1..(Len(file_list) - 1) :
              ~(file_list[n] = silence_between_path /\ file_list[n + 1] = silence_between_path)

\* C2: text_to_speech is never called with an empty text, and no record whose
\* headword or translation is empty after trimming reaches synthesis.
C2_NoEmptySynthesis ==
    /\ \A n \in TtsCalls : calls[n].arg # <<>>
    /\ pc = "word_files" => ~Skipped(words[i])

\* C4 (as stated): the number of text_to_speech calls of a run equals the
\* number of speech segments of the final segment list.
C4_OneCallPerOccurrence ==
    ListComplete => Cardinality(TtsCalls) = Cardinality(SpeechSegments)

\* C4 (amended): each phrase of a spoken record is synthesized once and its
\* file is reused by every repetition, so the final list holds
\* repetitions * (number of text_to_speech calls) speech segments.
C4_OneCallPerPhrase ==
    ListComplete =>
        Cardinality(SpeechSegments) = settings.repetitions * Cardinality(TtsCalls)

C4_Witness ==
    /\ ListComplete
    /\ settings.repetitions = 2
    /\ Cardinality(TtsCalls) >= 3
    /\ Cardinality(SpeechSegments) = 2 * Cardinality(TtsCalls)

\* C5: within one run the silence generator is never invoked twice for the
\* same duration.
C5_SilenceMemoized ==
    \A m, n \in SilenceCalls : m # n => calls[m].arg # calls[n].arg

\* C6: when the concat command returns non-zero, the run ends with an
\* exception and returns nothing.
C6_ConcatFailureIsFatal ==
    (pc = "done" /\ ConcatFailed) => (exception # "none" /\ retval = "none")

\* C7: once a text_to_speech call has raised, the run only cleans up and ends:
\* the exception propagates, concat is never run and nothing is returned.
C7_SynthesisFailureIsFatal ==
    TtsRaised =>
        /\ exception = "tts"
        /\ pc \in {"cleanup", "done"}
        /\ concat_result = "none"
        /\ retval = "none"

C7_Witness ==
    /\ pc = "done"
    /\ TtsRaised
    /\ file_list # <<>>
    /\ exception = "tts"

\* C8 (as stated): when a run that created its scratch directory has ended,
\* the directory is deleted.
C8_ScratchDeleted ==
    (pc = "done" /\ Created) => temp_dir = "deleted"

\* C8 (amended): on every exit path of a run that created its scratch
\* directory, rmtree has been attempted by the end of the run, and the
\* directory remains only if that rmtree failed.
C8_CleanupAttempted ==
    (pc = "done" /\ Created) =>
        /\ rmtree # "not_called"
        /\ (temp_dir = "deleted") = (rmtree = "ok")
        /\ (temp_dir = "exists") = (rmtree = "failed")

C8_Witness ==
    /\ pc = "done"
    /\ exception \in {"tts", "silence", "concat"}
    /\ rmtree = "ok"
    /\ temp_dir = "deleted"

\* C9: no out-of-range setting is used: every synthesis call has a speed in
\* 0.5-2.0, the inter-entry silence is generated with a duration in 0.5-5.0,
\* and the repetition loop runs with 1 or 2 repetitions.
C9_SettingsInRange ==
    /\ \A n \in TtsCalls : calls[n].speed \in SpeedMin..SpeedMax
    /\ silence_between_path # NoPath =>
          calls[silence_between_path.n].arg[1] \in PauseMin..PauseMax
    /\ pc = "repeat" => settings.repetitions \in {1, 2}

\* C10: in quiz mode pl_to_en the group of a record is speak(polish), quiz
\* pause, speak(headword); in en_to_pl it is speak(headword), quiz pause,
\* speak(polish); no 1.0s pause and no example, whatever include_examples and
\* the record's example are.  The headword is the english text as cleaned for
\* synthesis.
C10_QuizGroup ==
    (pc = "repeat" /\ settings.test_mode \in {"pl_to_en", "en_to_pl"}) =>
        LET first == calls[file_counter - 1]
            second == calls[file_counter]
            pl == Polish(words[i])
            en == CleanEnglish(English(words[i]))
        IN  /\ word_files = <<AudioPath(file_counter - 1), silence_test_path,
                              AudioPath(file_counter)>>
            /\ first.op = "tts" /\ second.op = "tts"
            /\ settings.test_mode = "pl_to_en" => (first.arg = pl /\ second.arg = en)
            /\ settings.test_mode = "en_to_pl" => (first.arg = en /\ second.arg = pl)
            /\ silence_test_path # silence_1s_path
            /\ calls[silence_test_path.n].arg = <<TEST_PAUSE_DURATION>>
            /\ \A n \in DOMAIN word_files : word_files[n] # silence_1s_path

C10_Witness ==
    /\ pc = "repeat"
    /\ settings.test_mode = "pl_to_en"
    /\ settings.include_examples
    /\ Example(words[i]) # <<>>
    /\ Len(word_files) = 3

\* C11: in normal mode the group of a record is speak(headword), 1.0s pause,
\* speak(polish), followed by 1.0s pause, speak(example) exactly when
\* include_examples is set and the record has a non-empty example.
C11_NormalGroup ==
    (pc = "repeat" /\ settings.test_mode = "None") =>
        LET has_example == settings.include_examples /\ Example(words[i]) # <<>>
            k == file_counter - (IF has_example THEN 2 ELSE 1)
        IN  /\ word_files =
                  <<AudioPath(k), silence_1s_path, AudioPath(k + 1)>>
                  \o (IF has_example THEN <<silence_1s_path, AudioPath(k + 2)>> ELSE <<>>)
            /\ calls[k].op = "tts" /\ calls[k + 1].op = "tts"
            /\ calls[k].arg = CleanEnglish(English(words[i]))
            /\ calls[k + 1].arg = Polish(words[i])
            /\ has_example =>
                  (calls[k + 2].op = "tts" /\ calls[k + 2].arg = Example(words[i]))
            /\ calls[silence_1s_path.n].arg = <<OneSecond>>

C11_Witness ==
    /\ pc = "repeat"
    /\ settings.test_mode = "None"
    /\ settings.include_examples
    /\ Example(words[i]) # <<>>
    /\ Len(word_files) = 5

\* C12: the step that adds a record to the list appends its group
\* `repetitions` times in a row, with the 1.0s pause between successive
\* repetitions and none after the last one (what may follow the last
\* repetition is the inter-entry silence).
C12_RepeatedGroup ==
    [][(pc = "repeat" /\ pc' = "loop") =>
        LET G == Len(word_files)
            r == settings.repetitions
            base == Len(file_list)
            L == r * G + (r - 1)
            extra == Len(file_list') - base - L
        IN  /\ SubSeq(file_list', 1, base) = file_list
            /\ extra \in {0, 1}
            /\ \A rep \in 0..(r - 1) :
                  SubSeq(file_list', base + rep * (G + 1) + 1, base + rep * (G + 1) + G)
                      = word_files
            /\ \A rep \in 1..(r - 1) :
                  file_list'[base + rep * (G + 1)] = silence_1s_path
            /\ extra = 1 => file_list'[Len(file_list')] = silence_between_path
      ]_vars

C12_Witness ==
    /\ pc = "loop"
    /\ settings.repetitions = 2
    /\ i = 2
    /\ Cardinality(Spoken) = 2
    /\ Len(file_list) >= 15
    /\ Count(file_list, silence_between_path) = 1

\* every record has an example
AllHaveExample == \A n \in DOMAIN words : Example(words[n]) # <<>>

CountLawSettings ==
    /\ settings.test_mode = "None"
    /\ settings.repetitions = 1
    /\ settings.include_examples

\* C13 (as stated): with no quiz mode, repetitions = 1, include_examples and
\* every record having an example, the list holds 3 * recordCount speech
\* segments and (for a non-empty list) recordCount - 1 inter-entry silences.
C13_SegmentCountLaw ==
    (ListComplete /\ CountLawSettings /\ AllHaveExample) =>
        /\ Cardinality(SpeechSegments) = 3 * Len(words)
        /\ words # <<>> => Count(file_list, silence_between_path) = Len(words) - 1

\* C13 (amended): the law holds when, in addition, every record is valid
\* (none is skipped).
C13_SegmentCountLawValid ==
    (/\ ListComplete /\ CountLawSettings /\ AllHaveExample
     /\ Spoken = DOMAIN words) =>
        /\ Cardinality(SpeechSegments) = 3 * Len(words)
        /\ words # <<>> => Count(file_list, silence_between_path) = Len(words) - 1

C13_Witness ==
    /\ ListComplete /\ CountLawSettings /\ AllHaveExample
    /\ Len(words) = 2
    /\ Spoken = DOMAIN words
    /\ Cardinality(SpeechSegments) = 6
    /\ Count(file_list, silence_between_path) = 1

\* the call of text_to_speech that speaks the headword of the current record
HeadwordCall ==
    calls[(IF settings.test_mode = "pl_to_en" THEN word_files[3] ELSE word_files[1]).n]

\* C14: the headword text sent to synthesis is the record's english text cut
\* at its first "(" and trimmed; it never contains a "(".
C14_HeadwordWithoutParenthetical ==
    pc = "repeat" =>
        /\ HeadwordCall.op = "tts"
        /\ HeadwordCall.arg = strip(SplitFirst(English(words[i]), "("))
        /\ FindChar(HeadwordCall.arg, "(", 1) = 0

C14_Witness ==
    /\ pc = "repeat"
    /\ FindChar(English(words[i]), "(", 1) > 1
    /\ HeadwordCall.arg = <<"a">>

(***************************************************************************)
(* Properties of parse_text                                                *)
(***************************************************************************)
\* the input is one line and its stripped form matches the headword pattern
OneHeadwordLine == Len(lines) = 1 /\ word_match(strip(lines[1])).ok

\* the record whose fields are the captured groups, trimmed
GroupsOf(line) ==
    LET m == word_match(strip(line))
    IN  [number |-> ToInt(m.g1), english |-> strip(m.g2),
         pronunciation |-> strip(m.g3), polish |-> strip(m.g4)]

FieldsOf(word) ==
    [number |-> word.number, english |-> word.english,
     pronunciation |-> word.pronunciation, polish |-> word.polish]

\* C3 (as stated): for every line matching the headword pattern, parse_text
\* on that line yields exactly one record whose number, english, pronunciation
\* and polish are the captured groups, trimmed.
C3_HeadwordLineYieldsGroups ==
    (parse_pc = "done" /\ OneHeadwordLine) =>
        /\ Len(parsed_words) = 1
        /\ FieldsOf(parsed_words[1]) = GroupsOf(lines[1])

\* C3 (amended): the same, for lines that are not entirely upper-case (those
\* are category headers) and whose captured translation contains no "ex:"
\* (those are split into translation and example).
C3_PlainHeadwordLineYieldsGroups ==
    (/\ parse_pc = "done"
     /\ OneHeadwordLine
     /\ ~isupper(strip(lines[1]))
     /\ FindSub(lower(word_match(strip(lines[1])).g4), ExPrefix, 1) = 0) =>
        /\ Len(parsed_words) = 1
        /\ FieldsOf(parsed_words[1]) = GroupsOf(lines[1])
        /\ parsed_words[1].example = None

C3_Witness ==
    /\ parse_pc = "done"
    /\ OneHeadwordLine
    /\ ~isupper(strip(lines[1]))
    /\ FindSub(lower(word_match(strip(lines[1])).g4), ExPrefix, 1) = 0
    /\ Len(parsed_words) = 1
    /\ parsed_words[1].pronunciation # word_match(strip(lines[1])).g3
    /\ parsed_words[1].number = 1

\* a record valid for audio: headword and translation non-empty after trimming
ValidRecord(word) ==
    strip(OrEmpty(word.english)) # <<>> /\ strip(OrEmpty(word.polish)) # <<>>

NoValidRecord == \A n \in DOMAIN words : ~ValidRecord(words[n])

IsHeader(l) ==
    LET s == strip(l) IN s # <<>> /\ ~is_separator(s) /\ isupper(s) /\ Len(s) > 2

IsHeadword(l) == ~IsHeader(l) /\ word_match(strip(l)).ok

BeginsWithEx(l) == startswith(lower(strip(l)), ExPrefix)

Heads == {n \in DOMAIN lines : IsHeadword(lines[n])}

\* the k-th element of a set of line numbers
Nth(S, k) == CHOOSE n \in S : Cardinality({m \in S : m <= n}) = k

Last(S) == CHOOSE n \in S : \A m \in S : m <= n

\* a paragraph that starts a record, and the match that starts it
ParaMatch(p) ==
    LET s == strip(p)
    IN  IF FindChar(s, "\n", 1) # 0 /\ word_match(WordLine(s)).ok
        THEN word_match(WordLine(s))
        ELSE word_match(s)

IsHeadwordPara(p) == ~IsHeader(p) /\ ParaMatch(p).ok

HeadParas == {n \in DOMAIN document : IsHeadwordPara(document[n])}

SameEntry(word, m) ==
    /\ word.number = ToInt(m.g1)
    /\ word.english = strip(m.g2)
    /\ word.pronunciation = strip(m.g3)

\* C15: when the parser returns, the last headword line of the input has
\* produced the last record of the result, in parse_text and in
\* parse_document, whether or not an example line followed it.
C15_LastEntryKept ==
    /\ (parse_pc = "done" /\ Heads # {}) =>
          /\ parsed_words # <<>>
          /\ SameEntry(parsed_words[Len(parsed_words)],
                       word_match(strip(lines[Last(Heads)])))
    /\ (doc_pc = "done" /\ HeadParas # {}) =>
          /\ doc_words # <<>>
          /\ SameEntry(doc_words[Len(doc_words)], ParaMatch(document[Last(HeadParas)]))

C15_Witness ==
    /\ doc_pc = "done"
    /\ Len(lines) = 3
    /\ Last(Heads) = 3
    /\ Len(parsed_words) = 2
    /\ Len(doc_words) = 2
    /\ parsed_words[2].number = 10
    /\ doc_words[2].number = 10

\* headword lines h < g with no headword line and no example line between them
Adjacent(h, g) ==
    /\ h \in Heads /\ g \in Heads /\ h < g
    /\ \A m \in (h + 1)..(g - 1) : m \notin Heads /\ ~BeginsWithEx(lines[m])

HasInlineExample(l) == FindSub(lower(word_match(strip(l)).g4), ExPrefix, 1) # 0

\* C16 (as stated): every headword line closes the record in progress, so the
\* result has one record per headword line, and a record whose headword line
\* is followed by the next headword line with no example line between them
\* has no example.
C16_NoExampleBetweenHeadwords ==
    parse_pc = "done" =>
        /\ Len(parsed_words) = Cardinality(Heads)
        /\ \A h, g \in Heads :
              Adjacent(h, g) =>
                  parsed_words[Cardinality({m \in Heads : m <= h})].example = None

\* C16 (amended): the same for headword lines whose own translation contains
\* no "ex:"; a translation with "ex:" gives the record its example at once.
C16_NoExampleUnlessInline ==
    parse_pc = "done" =>
        /\ Len(parsed_words) = Cardinality(Heads)
        /\ \A h, g \in Heads :
              (Adjacent(h, g) /\ ~HasInlineExample(lines[h])) =>
                  parsed_words[Cardinality({m \in Heads : m <= h})].example = None

C16_Witness ==
    /\ parse_pc = "done"
    /\ Len(lines) = 3
    /\ Heads = {1, 2, 3}
    /\ HasInlineExample(lines[1])
    /\ ~HasInlineExample(lines[2])
    /\ Len(parsed_words) = 3
    /\ parsed_words[1].example # None
    /\ parsed_words[2].example = None

\* the category header in force at line n: the last header line before it
HeaderBefore(n) ==
    LET H == {m \in 1..(n - 1) : IsHeader(lines[m])}
    IN  IF H = {} THEN None ELSE strip(lines[Last(H)])

\* C17: every record carries the most recent category header that precedes
\* its headword line, None if there is none.
C17_StickyCategory ==
    parse_pc = "done" =>
        /\ Len(parsed_words) = Cardinality(Heads)
        /\ \A k \in 1..Cardinality(Heads) :
              parsed_words[k].category = HeaderBefore(Nth(Heads, k))

C17_Witness ==
    /\ parse_pc = "done"
    /\ Len(lines) = 3
    /\ IsHeader(lines[1])
    /\ Heads = {2, 3}
    /\ Len(parsed_words) = 2
    /\ parsed_words[1].category = <<"C", "A", "B">>
    /\ parsed_words[2].category = <<"C", "A", "B">>

\* a line no rule acts on: blank, separator, stray text, or an example line
\* while no record is in progress
NoRule(l, has_word) ==
    /\ ~IsHeader(l)
    /\ ~word_match(strip(l)).ok
    /\ ~(BeginsWithEx(l) /\ has_word)

C19_DocumentMatchesText ==
    (doc_pc = "done" /\ parse_pc = "done") => doc_words = parsed_words

\* values that agree up to surrounding whitespace, an absent one read as empty
Equivalent(a, b) == strip(OrEmpty(a)) = strip(OrEmpty(b))

\* C20: parsing the display form of a parsed list gives back, for every
\* entry of the list, an entry with equivalent english, polish and example.
C20_DisplayRoundTrip ==
    (pass_no = 1 /\ parse_pc = "done") =>
        /\ Len(parsed_words) = Len(first_words)
        /\ \A k \in DOMAIN first_words :
              \E j \in DOMAIN parsed_words :
                  /\ Equivalent(parsed_words[j].english, first_words[k].english)
                  /\ Equivalent(parsed_words[j].polish, first_words[k].polish)
                  /\ Equivalent(parsed_words[j].example, first_words[k].example)

(***************************************************************************)
(* Further properties of generate_audio                                    *)
(***************************************************************************)
\* C27: no step of generate_audio changes the records it was given; the
\* headword is cut at "(" in a local only, so a record stored as "a (b)" is
\* spoken as "a" and still reads "a (b)" afterwards.
C27_RecordsNotMutated == [][words' = words]_vars

C27_Witness ==
    /\ pc = "done"
    /\ \E n \in DOMAIN words : words[n].english = <<"a", " ", "(", "b", ")">>
    /\ \E n \in TtsCalls : calls[n].arg = <<"a">>
    /\ \A n \in TtsCalls : calls[n].arg # <<"a", " ", "(", "b", ")">>

\* texts passed to text_to_speech, in call order
CallTexts ==
    [k \in 1..Cardinality(TtsCalls) |-> calls[Nth(TtsCalls, k)].arg]

\* texts of the speech segments of the positions S of the list, in list order
SegmentTexts(S) ==
    [k \in 1..Cardinality(S) |-> calls[file_list[Nth(S, k)].n].arg]

\* speech segments that stand in the list for the first time
FirstSegments ==
    {n \in SpeechSegments : \A m \in SpeechSegments : m < n => file_list[m] # file_list[n]}

SilencesFirst ==
    /\ \A n \in SilenceCalls : n <= 3
    /\ \A n \in TtsCalls : n > 3 /\ SilenceCalls = {1, 2, 3}

\* C28 (as stated): the texts passed to text_to_speech, in call order, are
\* the speech segments of the final list, in list order, and the three
\* silences are generated before the first synthesis call.
C28_CallsFollowTimeline ==
    /\ SilencesFirst
    /\ ListComplete => CallTexts = SegmentTexts(SpeechSegments)

\* C28 (amended): the texts passed to text_to_speech, in call order, are the
\* speech segments of the final list in list order with a segment that
\* repetitions put there again counted once; the three silences come first.
C28_CallsFollowFirstOccurrences ==
    /\ SilencesFirst
    /\ ListComplete =>
          /\ CallTexts = SegmentTexts(FirstSegments)
          /\ \A m, n \in FirstSegments : m < n => file_list[m].n < file_list[n].n
          /\ settings.repetitions = 1 => FirstSegments = SpeechSegments

C28_Witness ==
    /\ ListComplete
    /\ settings.repetitions = 2
    /\ Len(words) = 2
    /\ Spoken = {1, 2}
    /\ Cardinality(TtsCalls) = 5
    /\ Cardinality(SpeechSegments) = 10
    /\ Cardinality(FirstSegments) = 5

\* C23: a tab announces success and keeps the audio only when generate_audio
\* returned the complete output of a concat run that succeeded; an empty or
\* partial buffer is never announced as generated audio.
C23_SuccessMeansCompleteAudio ==
    announced = "success" =>
        /\ concat_result = "ok"
        /\ retval = "buffer"
        /\ session_audio = "buffer"

\* lower-cased headwords of the valid records of a list, in order
RECURSIVE ValidHeadwords(_)
ValidHeadwords(ws) ==
    IF ws = <<>> THEN <<>>
    ELSE (IF ValidRecord(Head(ws)) THEN <<lower(Head(ws).english)>> ELSE <<>>)
         \o ValidHeadwords(Tail(ws))

\* C22: the list handed to the history holds the lower-cased headwords of the
\* valid records only; a record whose headword or translation is empty after
\* trimming contributes no word.
C22_OnlyValidRecordsListed ==
    parse_pc = "listed" => word_list = ValidHeadwords(parsed_words)

(***************************************************************************)
(* Further properties of the parser                                        *)
(***************************************************************************)
\* a line that is entirely upper-case and longer than 2 characters
UpperLine(l) == isupper(strip(l)) /\ Len(strip(l)) > 2

\* C24: a line that is entirely upper-case and longer than 2 characters is
\* taken as a category header whatever else it matches: the step that reads
\* it sets the category to the line and neither emits a record nor touches
\* the record in progress.
C24_UpperCaseLineIsHeader ==
    [][(/\ parse_pc = "loop"
        /\ line_no' = line_no + 1
        /\ UpperLine(lines[line_no + 1])) =>
           /\ current_category' = strip(lines[line_no + 1])
           /\ UNCHANGED <<parsed_words, current_word>>
      ]_vars

C24_Witness ==
    /\ parse_pc = "done"
    /\ Len(lines) = 3
    /\ ~UpperLine(lines[1]) /\ word_match(strip(lines[1])).ok
    /\ lines[2] = <<"E", "X", ":", "E">>
    /\ UpperLine(lines[3]) /\ word_match(strip(lines[3])).ok
    /\ Len(parsed_words) = 1
    /\ parsed_words[1].example = None
    /\ current_category = lines[3]

\* example lines that follow headword line h before the next headword line
ExamplesAfter(h) ==
    {m \in DOMAIN lines :
        /\ m > h
        /\ \A g \in Heads : ~(h < g /\ g < m)
        /\ ~IsHeader(lines[m])
        /\ ~IsHeadword(lines[m])
        /\ BeginsWithEx(lines[m])}

ExampleText(l) == strip(SubSeq(strip(l), 4, Len(strip(l))))

\* C25: a category header between a headword line and its example line
\* changes nothing of the record in progress: the record still gets the
\* example, and it keeps the category that was in force at its headword line.
C25_HeaderKeepsRecordOpen ==
    parse_pc = "done" =>
        /\ Len(parsed_words) = Cardinality(Heads)
        /\ \A k \in 1..Cardinality(Heads) :
              LET h == Nth(Heads, k)
              IN  /\ parsed_words[k].category = HeaderBefore(h)
                  /\ ExamplesAfter(h) # {} =>
                        parsed_words[k].example = ExampleText(lines[Last(ExamplesAfter(h))])

C25_Witness ==
    /\ parse_pc = "done"
    /\ Len(lines) = 3
    /\ Heads = {1}
    /\ IsHeader(lines[2])
    /\ ExamplesAfter(1) = {3}
    /\ Len(parsed_words) = 1
    /\ parsed_words[1].example = <<"e">>
    /\ parsed_words[1].category = None
    /\ current_category = <<"C", "A", "B">>

\* the translation captured from a headword line, cut at its first "ex:"
BeforeEx(g4) == strip(SubSeq(strip(g4), 1, FindSub(lower(strip(g4)), ExPrefix, 1) - 1))
AfterEx(g4) ==
    strip(SubSeq(strip(g4), FindSub(lower(strip(g4)), ExPrefix, 1) + 3, Len(strip(g4))))
ContainsEx(g4) == FindSub(lower(strip(g4)), ExPrefix, 1) # 0

\* the record of the k-th headword line has the translation cut at "ex:"
InlineSplitInText(k) ==
    LET h == Nth(Heads, k)
        g4 == word_match(strip(lines[h])).g4
    IN  ContainsEx(g4) =>
          /\ parsed_words[k].polish = BeforeEx(g4)
          /\ parsed_words[k].example =
                (IF ExamplesAfter(h) = {} THEN AfterEx(g4)
                 ELSE ExampleText(lines[Last(ExamplesAfter(h))]))

\* the same for the k-th headword paragraph of the document
InlineSplitInDocument(k) ==
    LET g4 == ParaMatch(document[Nth(HeadParas, k)]).g4
    IN  ContainsEx(g4) =>
          /\ doc_words[k].polish = BeforeEx(g4)
          /\ Len(document) = 1 => doc_words[k].example = AfterEx(g4)

\* C26: in parse_text and in parse_document a captured translation that
\* contains "ex:" is cut there: the part before is the polish text, the part
\* after is the example unless a later example line replaces it.
C26_InlineExampleInBothModes ==
    /\ parse_pc = "done" => \A k \in 1..Cardinality(Heads) : InlineSplitInText(k)
    /\ doc_pc = "done" => \A k \in 1..Cardinality(HeadParas) : InlineSplitInDocument(k)

(***************************************************************************)
(* Properties of the word history                                          *)
(***************************************************************************)
\* C29: a call of add_words_to_history never loses a stored word: the store
\* is left as it was or replaced by a list that holds every word it held.
C29_HistoryOnlyGrows ==
    [][\A n \in DOMAIN StoredWords(stored) :
          \E m \in DOMAIN StoredWords(stored') :
              StoredWords(stored')[m] = StoredWords(stored)[n]
      ]_vars

\* C30: the stored list has no duplicates and no empty entry, every entry is
\* lower-cased and trimmed, and total_count is the length of the list.
C30_HistoryWellFormed ==
    stored # <<>> =>
        LET ws == stored[1].words
        IN  /\ \A m, n \in DOMAIN ws : m # n => ws[m] # ws[n]
            /\ \A n \in DOMAIN ws : ws[n] # <<>> /\ ws[n] = strip(lower(ws[n]))
            /\ stored[1].total_count = Len(ws)

C30_Witness ==
    /\ hist_pc = "returned"
    /\ hist_ret = TRUE
    /\ new_words = << <<"A">>, <<" ", "a">> >>
    /\ stored # <<>>
    /\ stored[1].words = << <<"b">>, <<"a">> >>
    /\ stored[1].total_count = 2

====
